---- MODULE Spec2Model ----
(***************************************************************************)
(* A model of boom.bootloader (src/boom/bootloader.py): the BootEntry /    *)
(* BootParams identity, dirty tracking and persistence life cycle.         *)
(*                                                                         *)
(* Python strings are sequences of atoms.  An atom is a run of text that   *)
(* the code never looks inside (a TLA+ string); " " is one whitespace      *)
(* character, "=" the option name/value separator and "%{key}" a format    *)
(* key.  str.replace, str.split and " ".join act on these sequences.       *)
(* Python's None is the empty sequence None and a present value x is the   *)
(* one-element sequence Some(x), so that None and "" stay distinct.        *)
(***************************************************************************)
EXTENDS Integers, Sequences, FiniteSets, TLC

VARIABLES
    be,        \* the BootEntry object under study (its private fields)
    entries,   \* boom.bootloader._entries: the in-memory entry index
    fs,        \* the entries directory: canonical path -> file
    tmp,       \* the temporary file of a write_entry in progress
    fds,       \* descriptors the process holds open on the temporary file
    pc,        \* position of the caller inside write_entry / update_entry
    call,      \* frame of the running write_entry / update_entry call
    last,      \* outcome of the most recently finished operation
    observed,  \* what the concurrent reader last read from a *.conf file
    nops,      \* number of API calls made so far
    nfaults    \* number of system calls that have failed so far

vars == <<be, entries, fs, tmp, fds, pc, call, last, observed, nops, nfaults>>

\* Number of API calls explored along one behaviour.
MaxOps == 3

\* Number of failing system calls explored along one behaviour.
MaxFaults == 1

(***************************************************************************)
(* Optional values and strings                                             *)
(***************************************************************************)
None == <<>>

Some(x) == <<x>>

\* Python truthiness of an optional string: neither None nor "".
Truthy(o) == o # None /\ o[1] # <<>>

\* `key in fmt` for a format key atom.
Contains(s, key) == \E i \in DOMAIN s : s[i] = key

RECURSIVE Replace(_, _, _)
\* str.replace(key, value): every occurrence of the atom key becomes value.
Replace(s, key, value) ==
    IF s = <<>> THEN <<>>
    ELSE (IF Head(s) = key THEN value ELSE <<Head(s)>>)
             \o Replace(Tail(s), key, value)

RECURSIVE SplitWords(_, _, _)
\* The scan of str.split(): the words found so far and the word being read.
SplitWords(s, words, cur) ==
    LET done == IF cur = <<>> THEN words ELSE Append(words, cur)
    IN  IF s = <<>> THEN done
        ELSE IF Head(s) = " " THEN SplitWords(Tail(s), done, <<>>)
        ELSE SplitWords(Tail(s), words, Append(cur, Head(s)))

\* str.split(): the whitespace separated words of s, empty words dropped.
Split(s) == SplitWords(s, <<>>, <<>>)

RECURSIVE Join(_)
\* " ".join(words)
Join(words) ==
    IF words = <<>> THEN <<>>
    ELSE IF Len(words) = 1 THEN Head(words)
    ELSE Head(words) \o <<" ">> \o Join(Tail(words))

\* opt.split('=')[0]: the atoms before the first "=".
RECURSIVE OptName(_)
OptName(w) ==
    IF w = <<>> \/ Head(w) = "=" THEN <<>>
    ELSE <<Head(w)>> \o OptName(Tail(w))

SeqToSet(s) == {s[i] : i \in DOMAIN s}

(***************************************************************************)
(* Entry keys                                                              *)
(***************************************************************************)
\* ENTRY_KEYS, by the attribute names KEY_MAP gives them.
ENTRY_KEYS ==
    <<"title", "machine_id", "version", "linux", "efi", "initrd",
      "options", "devicetree">>

\* _transform_key on the attribute names: '_' <-> '-'.
TransformKey(k) ==
    IF k = "machine_id" THEN "machine-id"
    ELSE IF k = "machine-id" THEN "machine_id"
    ELSE k

(***************************************************************************)
(* BootParams                                                              *)
(***************************************************************************)
\* DEV_PATTERN % lvm_root_lv
DevPattern(lv) == <<"/dev/">> \o lv

\* The generation after __init__: one increment per property assignment.
BootParamsInitGeneration(root_device, lvm_root_lv, subvol_path, subvol_id) ==
    1
    + (IF Truthy(root_device) THEN 1 ELSE 0)
    + (IF Truthy(lvm_root_lv)
       THEN (IF Truthy(root_device) THEN 0 ELSE 1) + 1 ELSE 0)
    + (IF Truthy(subvol_path) THEN 1 ELSE 0)
    + (IF Truthy(subvol_id) THEN 1 ELSE 0)
    + 2

\* A faulty BootParams.__init__ that does not compare the two Btrfs
\* selectors.
BootParamsUnchecked(version, root_device, lvm_root_lv, subvol_path, subvol_id, add_opts, del_opts) ==
    IF ~Truthy(version) THEN None
    ELSE Some([
        version           |-> version,
        root_device       |-> IF Truthy(root_device) THEN root_device
                              ELSE None,
        lvm_root_lv       |-> lvm_root_lv,
        btrfs_subvol_path |-> subvol_path,
        btrfs_subvol_id   |-> subvol_id,
        add_opts          |-> add_opts,
        del_opts          |-> del_opts,
        generation        |-> 1])

\* A faulty BootParams setter that forgets the generation.
BpSetAttrQuiet(b, attr, value) == [b EXCEPT ![attr] = value]

\* BootParams.__init__: None when it raises ValueError, else Some(object).
BootParams(version, root_device, lvm_root_lv, subvol_path, subvol_id, add_opts, del_opts) ==
    IF ~Truthy(version) THEN None
    ELSE IF Truthy(subvol_path) /\ Truthy(subvol_id) THEN None
    ELSE Some([
        version           |-> version,
        root_device       |-> IF Truthy(root_device) THEN root_device
                              ELSE IF Truthy(lvm_root_lv)
                                   THEN Some(DevPattern(lvm_root_lv[1]))
                                   ELSE None,
        lvm_root_lv       |-> IF Truthy(lvm_root_lv) THEN lvm_root_lv ELSE None,
        btrfs_subvol_path |-> IF Truthy(subvol_path) THEN subvol_path ELSE None,
        btrfs_subvol_id   |-> IF Truthy(subvol_id) THEN subvol_id ELSE None,
        add_opts          |-> add_opts,
        del_opts          |-> del_opts,
        generation        |-> BootParamsInitGeneration(
                                  root_device, lvm_root_lv, subvol_path,
                                  subvol_id)])

\* A BootParams property setter: bump generation, store the value.
BpSetAttr(b, attr, value) ==
    [b EXCEPT ![attr] = value, !.generation = b.generation + 1]

\* BootParams.has_btrfs
HasBtrfs(b) == Truthy(b.btrfs_subvol_id) \/ Truthy(b.btrfs_subvol_path)

\* BootParams.has_lvm2
HasLvm2(b) == b.lvm_root_lv # None /\ Len(b.lvm_root_lv[1]) > 0

(***************************************************************************)
(* The OS profile collaborator (boom.osprofile), as the tests build it     *)
(***************************************************************************)
\* The OsProfile of _reset_test_osprofile, with the title pattern of the
\* profile data in command_tests.
TestProfile ==
    [os_id             |-> <<"d4439b7">>,
     os_name           |-> <<"Distribution">>,
     os_short_name     |-> <<"distro">>,
     os_version        |-> <<"1", " ", "(Workstation", " ", "Edition)">>,
     os_version_id     |-> <<"1">>,
     title             |-> <<"This", " ", "is", " ", "a", " ", "title", " ",
                             "(", "%{version}", ")">>,
     kernel_pattern    |-> <<"/vmlinuz-", "%{version}">>,
     initramfs_pattern |-> <<"/initramfs-", "%{version}", ".img">>,
     root_opts_lvm2    |-> <<"rd.lvm.lv", "=", "%{lvm_root_lv}">>,
     root_opts_btrfs   |-> <<"rootflags", "=", "%{btrfs_subvolume}">>,
     options           |-> <<"root", "=", "%{root_device}", " ",
                             "%{root_opts}", " ", "rhgb", " ", "quiet">>]

\* The same profile after osp.options = "", as
\* test_BootParams_from_entry_no_opts makes it.
NoOptionsProfile == [TestProfile EXCEPT !.options = <<>>]

(***************************************************************************)
(* BootEntry: property getters and the template engine                     *)
(***************************************************************************)
\* BootEntry._entry_data_property
EntryDataProperty(e, name) ==
    IF name \in DOMAIN e.entry_data THEN Some(e.entry_data[name]) ELSE None

\* format_key_specs, one row per (key, key_spec) in the dictionary's order.
\* The dictionary literal names FMT_OS_NAME four times: the last value
\* (os_version_id) is the one the dictionary keeps.
FormatKeySpecs ==
    LET Row(key, be_attr, bp_attr, osp_attr, val_fmt) ==
            [key |-> key, be_attr |-> be_attr, bp_attr |-> bp_attr,
             osp_attr |-> osp_attr, val_fmt |-> val_fmt]
    IN  << Row("%{version}", Some("version"), Some("version"), None, <<>>),
           Row("%{lvm_root_lv}", None, Some("lvm_root_lv"), None, <<>>),
           Row("%{lvm_root_opts}", None, None, Some("root_opts_lvm2"), <<>>),
           Row("%{btrfs_root_opts}", None, None, Some("root_opts_btrfs"), <<>>),
           Row("%{btrfs_subvolume}", None, Some("btrfs_subvol_id"), None,
               <<"subvolid", "=">>),
           Row("%{btrfs_subvolume}", None, Some("btrfs_subvol_path"), None,
               <<"subvol", "=">>),
           Row("%{root_device}", None, Some("root_device"), None, <<>>),
           Row("%{root_opts}", Some("root_opts"), None, None, <<>>),
           Row("%{kernel}", Some("linux"), None, None, <<>>),
           Row("%{initramfs}", Some("initrd"), None, None, <<>>),
           Row("%{os_name}", None, None, Some("os_version_id"), <<>>) >>

RECURSIVE ApplyFormat(_, _)

\* BootEntry.version (getter)
Version(e) ==
    IF e.bp # None /\ "version" \notin DOMAIN e.entry_data
    THEN e.bp[1].version
    ELSE EntryDataProperty(e, "version")

\* BootEntry.root_opts
RootOpts(e) ==
    IF e.osp = None \/ e.bp = None THEN Some(<<>>)
    ELSE LET b == e.bp[1]
             lvm_opts == IF Truthy(b.lvm_root_lv)
                         THEN ApplyFormat(e, e.osp[1].root_opts_lvm2)
                         ELSE <<>>
             btrfs_opts == IF Truthy(b.btrfs_subvol_id)
                              \/ Truthy(b.btrfs_subvol_path)
                           THEN ApplyFormat(e, e.osp[1].root_opts_btrfs)
                           ELSE <<>>
             spacer == IF lvm_opts # <<>> /\ btrfs_opts # <<>>
                       THEN <<" ">> ELSE <<>>
         IN  Some(lvm_opts \o spacer \o btrfs_opts)

\* BootEntry.linux (getter)
Linux(e) ==
    IF e.osp = None \/ "linux" \in DOMAIN e.entry_data
    THEN EntryDataProperty(e, "linux")
    ELSE Some(ApplyFormat(e, e.osp[1].kernel_pattern))

\* BootEntry.initrd (getter)
Initrd(e) ==
    IF e.osp = None \/ "initrd" \in DOMAIN e.entry_data
    THEN EntryDataProperty(e, "initrd")
    ELSE Some(ApplyFormat(e, e.osp[1].initramfs_pattern))

\* getattr(self, key_spec[BE_ATTR]) for the attributes the table names.
BeAttr(e, attr) ==
    CASE attr = "version"   -> Version(e)
      [] attr = "root_opts" -> RootOpts(e)
      [] attr = "linux"     -> Linux(e)
      [] attr = "initrd"    -> Initrd(e)

\* A faulty get_key_attr that takes an empty value for no value.
GetKeyAttrNonEmpty(e, key_spec) ==
    LET have_attr ==
            \/ key_spec.bp_attr # None /\ e.bp # None
            \/ key_spec.osp_attr # None /\ e.osp # None
            \/ key_spec.be_attr # None
        value ==
            IF key_spec.bp_attr # None /\ e.bp # None
            THEN e.bp[1][key_spec.bp_attr[1]]
            ELSE IF key_spec.osp_attr # None
            THEN Some(e.osp[1][key_spec.osp_attr[1]])
            ELSE BeAttr(e, key_spec.be_attr[1])
    IN  IF ~have_attr THEN None
        ELSE IF ~Truthy(value) THEN None
        ELSE Some(key_spec.val_fmt \o value[1])

\* get_key_attr: the value to substitute for a key_spec, None for none.
GetKeyAttr(e, key_spec) ==
    LET have_attr ==
            \/ key_spec.bp_attr # None /\ e.bp # None
            \/ key_spec.osp_attr # None /\ e.osp # None
            \/ key_spec.be_attr # None
        value ==
            IF key_spec.bp_attr # None /\ e.bp # None
            THEN e.bp[1][key_spec.bp_attr[1]]
            ELSE IF key_spec.osp_attr # None
            THEN Some(e.osp[1][key_spec.osp_attr[1]])
            ELSE BeAttr(e, key_spec.be_attr[1])
    IN  IF ~have_attr THEN None
        ELSE IF value = None THEN None
        ELSE Some(key_spec.val_fmt \o value[1])

RECURSIVE ApplySpecs(_, _, _)
\* The substitution loop of _apply_format, from row i of the table on.
ApplySpecs(e, fmt, i) ==
    IF i > Len(FormatKeySpecs) THEN fmt
    ELSE LET key_spec == FormatKeySpecs[i]
         IN  IF ~Contains(fmt, key_spec.key) THEN ApplySpecs(e, fmt, i + 1)
             ELSE LET value == GetKeyAttr(e, key_spec)
                  IN  IF value = None THEN ApplySpecs(e, fmt, i + 1)
                      ELSE ApplySpecs(
                               e, Replace(fmt, key_spec.key, value[1]), i + 1)

\* BootEntry._apply_format
ApplyFormat(e, fmt) == IF fmt = <<>> THEN <<>> ELSE ApplySpecs(e, fmt, 1)

\* BootEntry.title (getter)
Title(e) ==
    IF "title" \in DOMAIN e.entry_data THEN EntryDataProperty(e, "title")
    ELSE IF e.osp = None \/ e.bp = None THEN Some(<<>>)
    ELSE Some(ApplyFormat(e, e.osp[1].title))

\* BootEntry.machine_id (getter)
MachineId(e) == EntryDataProperty(e, "machine_id")

\* BootEntry.efi (getter)
Efi(e) == EntryDataProperty(e, "efi")

\* BootEntry.devicetree (getter)
Devicetree(e) == EntryDataProperty(e, "devicetree")

\* add_opts of the options getter
AddOpts(opts, append) ==
    IF append # <<>> THEN opts \o <<" ">> \o Join(append) ELSE opts

\* A faulty del_opt without the "name=" wildcard.
DelOptExact(opt, drop) == opt \in SeqToSet(drop)

\* del_opt of the options getter
DelOpt(opt, drop) ==
    \/ opt \in SeqToSet(drop)
    \/ (OptName(opt) \o <<"=">>) \in SeqToSet(drop)

\* del_opts of the options getter
DelOpts(opts, drop) ==
    LET Keep(o) == ~DelOpt(o, drop)
    IN  Join(SelectSeq(Split(opts), Keep))

\* A faulty options getter that deletes before it appends.
OptionsDeleteFirst(e) ==
    IF "options" \in DOMAIN e.entry_data
    THEN IF e.bp # None
         THEN Some(AddOpts(DelOpts(e.entry_data["options"],
                                   e.bp[1].del_opts), e.bp[1].add_opts))
         ELSE EntryDataProperty(e, "options")
    ELSE IF e.osp # None /\ e.bp # None
    THEN Some(AddOpts(DelOpts(ApplyFormat(e, e.osp[1].options),
                              e.bp[1].del_opts), e.bp[1].add_opts))
    ELSE Some(<<>>)

\* BootEntry.options (getter)
Options(e) ==
    IF "options" \in DOMAIN e.entry_data
    THEN IF e.bp # None
         THEN Some(DelOpts(AddOpts(e.entry_data["options"],
                                   e.bp[1].add_opts), e.bp[1].del_opts))
         ELSE EntryDataProperty(e, "options")
    ELSE IF e.osp # None /\ e.bp # None
    THEN Some(DelOpts(AddOpts(ApplyFormat(e, e.osp[1].options),
                              e.bp[1].add_opts), e.bp[1].del_opts))
    ELSE Some(<<>>)

\* getattr(self, KEY_MAP[k]) for an entry key.
GetAttr(e, k) ==
    CASE k = "title"      -> Title(e)
      [] k = "machine_id" -> MachineId(e)
      [] k = "version"    -> Version(e)
      [] k = "linux"      -> Linux(e)
      [] k = "efi"        -> Efi(e)
      [] k = "initrd"     -> Initrd(e)
      [] k = "options"    -> Options(e)
      [] k = "devicetree" -> Devicetree(e)

RECURSIVE EntryLines(_, _)
\* The "<key> <value>" lines of __str / write_entry from ENTRY_KEYS[i] on:
\* only the keys whose attribute is truthy, in ENTRY_KEYS order.
EntryLines(e, i) ==
    IF i > Len(ENTRY_KEYS) THEN <<>>
    ELSE LET k == ENTRY_KEYS[i]
             v == GetAttr(e, k)
         IN  (IF Truthy(v) THEN << <<TransformKey(k), v[1]>> >> ELSE <<>>)
                 \o EntryLines(e, i + 1)

\* BootEntry.__str(no_boot_id=True): the canonical serialization.
EntryStr(e) == EntryLines(e, 1)

\* hashlib.sha1(...).hexdigest(): the digest is taken to be collision free,
\* so it is an injective tag of the text it digests.
Sha1(text) == [sha1 |-> text]

\* BootEntry.__generate_boot_id
GenerateBootId(e) == Sha1(EntryStr(e))

\* BootEntry._dirty
Dirty(e) == [e EXCEPT !.boot_id = None, !.unwritten = TRUE]

\* BootEntry.boot_id (getter): the entry after the read.  The read marks
\* the entry dirty when the BootParams generation moved, and regenerates
\* the cached digest when there is none or the entry is dirty.
BootIdRead(e) ==
    LET e1 == IF e.bp # None /\ e.bp[1].generation # e.bp_generation
              THEN Dirty([e EXCEPT !.bp_generation = e.bp[1].generation])
              ELSE e
    IN  IF e1.boot_id = None \/ e1.unwritten
        THEN [e1 EXCEPT !.boot_id = Some(GenerateBootId(e1))]
        ELSE e1

\* BootEntry.boot_id (getter): the value the read returns.
BootId(e) == BootIdRead(e).boot_id[1]

\* boot_id[0:7]: the leading seven hex digits, taken to be collision free
\* like the digest itself.
BootIdPrefix(id) == [sha1_7 |-> id.sha1]

\* BootEntry._entry_path: BOOT_ENTRIES_FORMAT % (machine_id, boot_id[0:7],
\* version) under boom_entries_path().
EntryPath(e) ==
    [machine_id |-> MachineId(e), boot_id |-> BootIdPrefix(BootId(e)),
     version |-> Version(BootIdRead(e))]

(***************************************************************************)
(* The state machine: one BootEntry, the entries directory, the index      *)
(***************************************************************************)
\* d[k] = v for a dictionary d.
Put(d, k, v) == [x \in DOMAIN d \cup {k} |-> IF x = k THEN v ELSE d[x]]

\* BOOT_ENTRY_MODE
BOOT_ENTRY_MODE == "0o644"

\* The mode mkstemp creates a file with.
MkstempMode == "0o600"

\* Values the callers assign to each entry property.
PropertyValues ==
    [title      |-> {<<"title">>, <<"title2">>, <<>>},
     machine_id |-> {<<"aaaaaaaa">>},
     version    |-> {<<"2.2.2">>},
     linux      |-> {<<"/vmlinuz-custom">>},
     efi        |-> {<<"/efi/app.efi">>},
     initrd     |-> {<<"/initramfs-custom.img">>},
     options    |-> {<<"ro", " ", "quiet">>},
     devicetree |-> {<<"/dt.dtb">>}]

\* Values the callers assign to each BootParams property.
BootParamsValues ==
    [version           |-> {Some(<<"2.2.2">>)},
     root_device       |-> {Some(<<"/dev/sdb1">>)},
     lvm_root_lv       |-> {Some(<<"vg00/lvol0">>)},
     btrfs_subvol_path |-> {Some(<<"/snapshots/snap-1">>)},
     btrfs_subvol_id   |-> {Some(<<"232">>)},
     add_opts          |-> {<< <<"debug">> >>},
     del_opts          |-> {<< <<"quiet">> >>}]

\* The BootParams objects the callers construct.
InitialBootParams ==
    BootParams(Some(<<"1.1.1">>), Some(<<"/dev/sda5">>), None, None, None, <<>>, <<>>)

ReplacementBootParams ==
    BootParams(Some(<<"3.3.3">>), Some(<<"/dev/sdc1">>), None, None, None, <<>>, <<>>)

\* The bp property setter: mark dirty, store, snapshot the generation.
SetBpOf(e, value) ==
    [Dirty(e) EXCEPT !.bp = value,
                     !.bp_generation =
                         IF value # None THEN value[1].generation ELSE 0]

\* A literal property setter (title, machine_id, version, options, linux,
\* initrd, efi, devicetree): store in _entry_data, mark dirty.
SetEntryData(e, k, v) == Dirty([e EXCEPT !.entry_data = Put(e.entry_data, k, v)])

\* BootEntry.__init__(title, machine_id, osprofile, boot_params,
\* allow_no_dev=True): the keyword-argument constructor.  No profile and
\* no host profile is loaded, so the probes leave _osp as given.
NewBootEntry(title, machine_id, osprofile, boot_params) ==
    LET e0 == [entry_data    |-> <<>>,
               bp            |-> None,
               bp_generation |-> 0,
               boot_id       |-> None,
               unwritten     |-> TRUE,
               last_path     |-> None,
               comments      |-> None,
               osp           |-> osprofile]
        e1 == SetBpOf(e0, boot_params)
        e2 == SetEntryData(e1, "title", title)
    IN  SetEntryData(e2, "machine_id", machine_id)

NoCall == [op |-> "none", entry_path |-> None, pre |-> None]

Init ==
    /\ \E osprofile \in {None, Some(TestProfile)} :
       \E boot_params \in {None, InitialBootParams} :
           be = NewBootEntry(<<"title">>, <<"ffffffff">>, osprofile, boot_params)
    /\ entries = <<>>
    /\ fs = <<>>
    /\ tmp = <<>>
    /\ fds = 0
    /\ pc = "idle"
    /\ call = NoCall
    /\ last = [op |-> "none", res |-> "none", pre |-> None]
    /\ observed = "nothing"
    /\ nops = 0
    /\ nfaults = 0

\* An API call by the (single threaded) caller may start.
CanCall == pc = "idle" /\ nops < MaxOps

\* A faulty os.path.exists that finds every path.
PathAlwaysExists(path, files) == TRUE

\* os.path.exists
PathExists(path, files) == path \in DOMAIN files

\* What the history keeps of the entry as it was when a call was made.
Snapshot(e) ==
    Some([last_path |-> e.last_path,
          had_file  |-> e.last_path # None /\ PathExists(e.last_path[1], fs),
          unwritten |-> e.unwritten,
          in_index  |-> "be" \in SeqToSet(entries)])

\* What a call that is no write, update or delete leaves behind.
Called(op, res) ==
    /\ last' = [op |-> op, res |-> res, pre |-> Snapshot(be)]
    /\ nops' = nops + 1
    /\ UNCHANGED <<entries, fs, tmp, fds, pc, call, observed, nfaults>>

\* The title setter: an empty title needs a profile that supplies one.
SetTitle(v) ==
    /\ CanCall
    /\ IF v = <<>> /\ (be.osp = None \/ be.osp[1].title = <<>>)
       THEN be' = be /\ Called("set", "ValueError")
       ELSE be' = SetEntryData(be, "title", v) /\ Called("set", "ok")

\* The machine_id, version, options, linux, initrd, efi and devicetree
\* setters.
SetProperty(k, v) ==
    /\ CanCall
    /\ k # "title"
    /\ be' = SetEntryData(be, k, v)
    /\ Called("set", "ok")

\* be.bp = value
SetBp(value) ==
    /\ CanCall
    /\ be' = SetBpOf(be, value)
    /\ Called("set", "ok")

\* be.bp.<attr> = value: a setter of the BootParams the entry owns.
BpSet(attr, value) ==
    /\ CanCall
    /\ be.bp # None
    /\ be' = [be EXCEPT !.bp = Some(BpSetAttr(be.bp[1], attr, value))]
    /\ Called("bp_set", "ok")

\* BootEntry.__setitem__: be[key] = value for an entry key.
SetItemOf(e, k, v) ==
    IF k = "version" /\ e.bp # None
    THEN [e EXCEPT !.bp = Some(BpSetAttr(e.bp[1], "version", Some(v)))]
    ELSE IF k \in {"linux", "initrd", "options", "devicetree", "efi"}
            /\ e.bp # None
    THEN SetEntryData(e, k, v)
    ELSE IF k \in DOMAIN e.entry_data
    THEN [e EXCEPT !.entry_data = Put(e.entry_data, k, v)]
    ELSE e

\* BootEntry.__setitem__ raises KeyError: no branch takes the key.
SetItemRaises(e, k) ==
    /\ ~(k \in {"version", "linux", "initrd", "options", "devicetree", "efi"}
          /\ e.bp # None)
    /\ k \notin DOMAIN e.entry_data

SetItem(k, v) ==
    /\ CanCall
    /\ be' = SetItemOf(be, k, v)
    /\ IF SetItemRaises(be, k)
       THEN Called("setitem", "KeyError")
       ELSE Called("setitem", "ok")

\* A read of be.boot_id.
ReadBootId ==
    /\ CanCall
    /\ be' = BootIdRead(be)
    /\ Called("boot_id", "ok")

(***************************************************************************)
(* write_entry, update_entry, delete_entry                                 *)
(***************************************************************************)
\* A faulty _add_entry that leaves the index alone.
AddEntryDropped(idx) == idx

\* _add_entry.  The index has been loaded (load_entries on the empty
\* entries directory) before the entry is constructed, so _entries is a
\* list; the one BootEntry object of the model is the reference "be".
AddEntry(idx) == IF "be" \in SeqToSet(idx) THEN idx ELSE Append(idx, "be")

\* _del_entry: list.remove, which removes the first occurrence.
DelEntry(idx) == SelectSeq(idx, LAMBDA x : x # "be")

\* A faulty guard of write_entry that never skips the write.
NeverSkipped(e, force) == FALSE

\* The guard of write_entry: nothing to do for a clean entry, unless forced.
WriteSkipped(e, force) == ~e.unwritten /\ ~force

\* The file mkstemp creates: empty, private, not yet complete nor synced.
NewTmpFile ==
    [os_id |-> None, lines |-> <<>>, comments |-> <<>>, complete |-> FALSE,
     synced |-> FALSE, mode |-> MkstempMode]

\* The temporary file of the write in progress: the newest one.
CurTmp == tmp[Len(tmp)]

\* unlink(tmp_path)
UnlinkTmp == SubSeq(tmp, 1, Len(tmp) - 1)

\* A faulty loop of write_entry that stops after its first iteration.
LoopDoneAfterFirstLine(lines, e) == TRUE

\* The loop of write_entry has written every line of the entry.
LoopDone(lines, e) == Len(lines) >= Len(EntryStr(e))

\* A call returns or raises: the frame is dropped.
Finish(op, res, pre) ==
    /\ last' = [op |-> op, res |-> res, pre |-> pre]
    /\ call' = NoCall
    /\ pc' = "idle"
    /\ observed' = "nothing"

\* Entry to write_entry(force), called directly or from update_entry (op).
BeginWrite(op, force) ==
    /\ CanCall
    /\ nops' = nops + 1
    /\ IF WriteSkipped(be, force)
       THEN /\ UNCHANGED <<be, entries, fs, tmp, fds, nfaults>>
            /\ IF op = "write_entry"
               THEN /\ last' = [op |-> op, res |-> "noop", pre |-> Snapshot(be)]
                    /\ UNCHANGED <<pc, call, observed>>
               ELSE /\ pc' = "unlink"
                    /\ call' = [op |-> op, entry_path |-> None,
                                pre |-> Snapshot(be)]
                    /\ UNCHANGED <<last, observed>>
       ELSE /\ be' = BootIdRead(be)
            /\ UNCHANGED <<entries, fs>>
            /\ \/ /\ tmp' = Append(tmp, NewTmpFile)
                  /\ fds' = fds + 2
                  /\ pc' = "with"
                  /\ call' = [op |-> op, entry_path |-> Some(EntryPath(be)),
                              pre |-> Snapshot(be)]
                  /\ UNCHANGED <<last, observed, nfaults>>
               \/ /\ nfaults < MaxFaults
                  /\ nfaults' = nfaults + 1
                  /\ Finish(op, "error", Snapshot(be))
                  /\ UNCHANGED <<tmp, fds>>

\* be.write_entry(force)
WriteEntry(force) == BeginWrite("write_entry", force)

\* be.update_entry(force): remembers _last_path, then calls write_entry.
UpdateEntry(force) == BeginWrite("update_entry", force)

RECURSIVE Rstrip(_)
\* str.rstrip() of a comment block, a sequence of lines: the trailing
\* blank lines and the trailing whitespace of the last line go.
Rstrip(block) ==
    IF block = <<>> THEN <<>>
    ELSE LET line == block[Len(block)]
             front == SubSeq(block, 1, Len(block) - 1)
         IN  IF line = <<>> THEN Rstrip(front)
             ELSE IF line[Len(line)] = " "
             THEN Rstrip(Append(front, SubSeq(line, 1, Len(line) - 1)))
             ELSE block

\* One iteration of the loop in the with block: the "#OsIdentifier" line
\* before the first key, the comment kept for the key, the key's line,
\* flush.  Leaving the block after the last line closes the file (the
\* duplicate descriptor stays open).
WriteLine ==
    /\ pc = "with"
    /\ LET n == Len(CurTmp.lines) + 1
           lines == Append(CurTmp.lines, EntryStr(be)[n])
           key == TransformKey(EntryStr(be)[n][1])
           done == LoopDone(lines, be)
       IN  /\ tmp' = [tmp EXCEPT ![Len(tmp)] =
                         [CurTmp EXCEPT
                             !.os_id = IF be.osp # None
                                       THEN Some(be.osp[1].os_id) ELSE None,
                             !.comments =
                                 IF be.comments # None
                                    /\ key \in DOMAIN be.comments[1]
                                 THEN Put(@, key, Rstrip(be.comments[1][key]))
                                 ELSE @,
                             !.lines = lines,
                             !.complete = done /\ lines = EntryStr(be)]]
           /\ pc' = IF done THEN "fdatasync" ELSE "with"
           /\ fds' = IF done THEN fds - 1 ELSE fds
    /\ UNCHANGED <<be, entries, fs, call, last, observed, nops, nfaults>>

\* A write or flush in the with block fails: the block closes the file and
\* the exception leaves write_entry.  Nothing unlinks the temporary file.
WriteLineFails ==
    /\ pc = "with"
    /\ nfaults < MaxFaults
    /\ nfaults' = nfaults + 1
    /\ fds' = fds - 1
    /\ Finish(call.op, "error", call.pre)
    /\ UNCHANGED <<be, entries, fs, tmp, nops>>

\* The except branch of write_entry: unlink(tmp_path), errors ignored,
\* and the exception is raised again.
WriteRaises ==
    /\ nfaults < MaxFaults
    /\ nfaults' = nfaults + 1
    /\ Finish(call.op, "error", call.pre)
    /\ UNCHANGED <<be, entries, fds, nops>>

\* fdatasync(tmp_fd)
Fdatasync ==
    /\ pc = "fdatasync"
    /\ \/ /\ tmp' = [tmp EXCEPT ![Len(tmp)] = [CurTmp EXCEPT !.synced = TRUE]]
          /\ pc' = "rename"
          /\ UNCHANGED <<be, entries, fs, fds, call, last, observed, nops,
                         nfaults>>
       \/ /\ WriteRaises
          /\ tmp' = UnlinkTmp
          /\ UNCHANGED fs

\* rename(tmp_path, entry_path)
Rename ==
    /\ pc = "rename"
    /\ \/ /\ fs' = Put(fs, call.entry_path[1], CurTmp)
          /\ tmp' = UnlinkTmp
          /\ pc' = "chmod"
          /\ UNCHANGED <<be, entries, fds, call, last, observed, nops,
                         nfaults>>
       \/ /\ WriteRaises
          /\ tmp' = UnlinkTmp
          /\ UNCHANGED fs

\* chmod(entry_path, BOOT_ENTRY_MODE), and the end of write_entry:
\* _last_path, _unwritten, _add_entry.
Chmod ==
    /\ pc = "chmod"
    /\ \/ /\ fs' = [fs EXCEPT ![call.entry_path[1]].mode = BOOT_ENTRY_MODE]
          /\ be' = [be EXCEPT !.last_path = call.entry_path,
                              !.unwritten = FALSE]
          /\ entries' = AddEntry(entries)
          /\ IF call.op = "write_entry"
             THEN Finish("write_entry", "ok", call.pre)
             ELSE pc' = "unlink" /\ UNCHANGED <<call, last, observed>>
          /\ UNCHANGED <<tmp, fds, nops, nfaults>>
       \/ /\ WriteRaises
          /\ UNCHANGED <<fs, tmp>>

\* The end of update_entry: unlink the old file when the entry's path is
\* no longer the remembered one; an error of unlink is logged and dropped.
UpdateUnlink ==
    /\ pc = "unlink"
    /\ be' = BootIdRead(be)
    /\ LET to_unlink == call.pre[1].last_path
       IN  IF Some(EntryPath(be)) # to_unlink
           THEN \/ /\ fs' = IF to_unlink # None /\ to_unlink[1] \in DOMAIN fs
                            THEN [p \in DOMAIN fs \ {to_unlink[1]} |-> fs[p]]
                            ELSE fs
                   /\ UNCHANGED nfaults
                \/ /\ to_unlink # None /\ PathExists(to_unlink[1], fs)
                   /\ nfaults < MaxFaults
                   /\ nfaults' = nfaults + 1
                   /\ UNCHANGED fs
           ELSE UNCHANGED <<fs, nfaults>>
    /\ Finish("update_entry", "ok", call.pre)
    /\ UNCHANGED <<entries, tmp, fds, nops>>

\* be.delete_entry()
DeleteEntry ==
    /\ CanCall
    /\ nops' = nops + 1
    /\ be' = BootIdRead(be)
    /\ UNCHANGED <<tmp, fds, pc, call, observed>>
    /\ LET path == EntryPath(be)
           remove == [p \in DOMAIN fs \ {path} |-> fs[p]]
           Returns(res) == last' = [op |-> "delete_entry", res |-> res,
                                    pre |-> Snapshot(be)]
       IN  IF ~PathExists(path, fs)
           THEN /\ Returns("ValueError")
                /\ UNCHANGED <<entries, fs, nfaults>>
           ELSE \/ /\ fs' = remove
                   /\ UNCHANGED nfaults
                   /\ IF BootIdRead(be).unwritten
                      THEN Returns("ok") /\ UNCHANGED entries
                      ELSE IF "be" \in SeqToSet(entries)
                      THEN Returns("ok") /\ entries' = DelEntry(entries)
                      ELSE Returns("error") /\ UNCHANGED entries
                \/ /\ nfaults < MaxFaults
                   /\ nfaults' = nfaults + 1
                   /\ Returns("error")
                   /\ UNCHANGED <<entries, fs>>

\* A concurrent reader (load_entries in another process) lists the entries
\* directory while a write is in progress and reads one of its *.conf
\* files; the names mkstemp makes ("boom" and random characters) do not
\* end in ".conf", so it never opens a temporary file.
ReaderRead ==
    /\ pc # "idle"
    /\ \E p \in DOMAIN fs :
           observed' = IF fs[p].complete THEN "complete" ELSE "partial"
    /\ UNCHANGED <<be, entries, fs, tmp, fds, pc, call, last, nops, nfaults>>

Next ==
    \/ \E v \in PropertyValues["title"] : SetTitle(v)
    \/ \E k \in DOMAIN PropertyValues : \E v \in PropertyValues[k] : SetProperty(k, v)
    \/ SetBp(ReplacementBootParams)
    \/ \E a \in DOMAIN BootParamsValues : \E v \in BootParamsValues[a] : BpSet(a, v)
    \/ \E k \in DOMAIN PropertyValues : \E v \in PropertyValues[k] : SetItem(k, v)
    \/ ReadBootId
    \/ \E force \in BOOLEAN : WriteEntry(force)
    \/ \E force \in BOOLEAN : UpdateEntry(force)
    \/ WriteLine
    \/ WriteLineFails
    \/ Fdatasync
    \/ Rename
    \/ Chmod
    \/ UpdateUnlink
    \/ DeleteEntry
    \/ ReaderRead

Spec == Init /\ [][Next]_vars

(***************************************************************************)
(* BootParams and the template engine on their own: an entry in memory,    *)
(* its BootParams constructed, recovered and mutated by the caller; no     *)
(* file is written.  `last` keeps the last call with its arguments (args)  *)
(* and what it returned (out).                                             *)
(***************************************************************************)
\* How many constructions, recoveries and setter calls a caller makes.
MaxParamOps == 2

\* The arguments callers construct a BootParams with.
ParamArgs ==
    [version           : {None, Some(<<>>), Some(<<"1.1.1">>)},
     root_device       : {None, Some(<<"/dev/sda5">>)},
     lvm_root_lv       : {None, Some(<<"vg00/lvol0">>)},
     btrfs_subvol_path : {None, Some(<<>>), Some(<<"/snapshots/snap-1">>)},
     btrfs_subvol_id   : {None, Some(<<"232">>)},
     add_opts          : {<<>>, << <<"debug">>, <<"root", "=", "/dev/sdz9">> >>},
     del_opts          : {<<>>}]

\* The values callers assign to the fields of a BootParams.
ParamSetValues ==
    [version           |-> {Some(<<>>), Some(<<"2.2.2">>)},
     root_device       |-> {Some(<<>>), Some(<<"/dev/sdb1">>)},
     lvm_root_lv       |-> {Some(<<"vg00/lvol0">>)},
     btrfs_subvol_path |-> {Some(<<"/snapshots/snap-1">>)},
     btrfs_subvol_id   |-> {Some(<<"232">>)},
     add_opts          |-> {<< <<"debug">> >>,
                            << <<"debug">>, <<"root", "=", "/dev/sdz9">> >>},
     del_opts          |-> {<< <<"quiet">> >>,
                            << <<"root", "=">> >>,
                            << <<"root", "=", "/dev/sda5">> >>,
                            << <<"debug">>, <<"rhgb">> >>}]

\* The entries the callers start from: no BootParams yet, with or without
\* a profile, a version and a literal options string of their own.
ParamsEntries ==
    LET Base(osp) == NewBootEntry(<<"title">>, <<"ffffffff">>, osp, None)
        WithVersion(e) == {e, SetEntryData(e, "version", <<"3.3.3">>)}
        WithOptions(e) ==
            {e, SetEntryData(e, "options",
                    <<"root", "=", "/dev/sda5", " ", "ro", " ", "quiet", " ",
                      "root", "=", "/dev/sdb1", " ", "quiet", "=", "1">>),
                SetEntryData(e, "options",
                    <<"ro", " ", "debug", " ", "ro", " ", "rd.lvm.lv", "=",
                      "vg00/lvol0", " ", "rhgb">>)}
    IN  UNION {UNION {WithOptions(e1) : e1 \in WithVersion(Base(osp))} :
               osp \in {None, Some(TestProfile), Some(NoOptionsProfile)}}

ParamsInit ==
    /\ be \in ParamsEntries
    /\ entries = <<>>
    /\ fs = <<>>
    /\ tmp = <<>>
    /\ fds = 0
    /\ pc = "idle"
    /\ call = NoCall
    /\ last = [op |-> "none", res |-> "none", pre |-> None]
    /\ observed = "nothing"
    /\ nops = 0
    /\ nfaults = 0

\* be.bp = BootParams(...): nothing is assigned when the constructor raises.
NewParams(a) ==
    /\ nops < MaxParamOps
    /\ nops' = nops + 1
    /\ LET r == BootParams(a.version, a.root_device, a.lvm_root_lv,
                           a.btrfs_subvol_path, a.btrfs_subvol_id,
                           a.add_opts, a.del_opts)
       IN  /\ be' = IF r = None THEN be ELSE SetBpOf(be, r)
           /\ last' = [op |-> "BootParams",
                       res |-> IF r = None THEN "ValueError" ELSE "ok",
                       pre |-> None, args |-> a, out |-> r]
    /\ UNCHANGED <<entries, fs, tmp, fds, pc, call, observed, nfaults>>

\* be.bp.<attr> = value, for any value a caller may pass.
ParamsSet(attr, value) ==
    /\ nops < MaxParamOps
    /\ be.bp # None
    /\ nops' = nops + 1
    /\ be' = [be EXCEPT !.bp = Some(BpSetAttr(be.bp[1], attr, value))]
    /\ last' = [op |-> "bp_set", res |-> "ok", pre |-> None,
                args |-> <<attr, value>>, out |-> None]
    /\ UNCHANGED <<entries, fs, tmp, fds, pc, call, observed, nfaults>>

\* OsProfile.make_format_regexes(fmt), of the profile collaborator: one
\* (name, exp) pair per option the template can produce, in template
\* order.  A pair is [name, prefix, capture]: a word carrying a
\* BootParams value gives the attribute's name and the expression
\* "<prefix>(\S+)"; %{root_opts} stands for the words of the LVM2 and
\* Btrfs root options, %{btrfs_subvolume} for its subvolid= and subvol=
\* forms; any other word is a literal with the empty name.  An empty
\* template gives the empty list.
RECURSIVE MakeFormatRegexes(_, _)
MakeFormatRegexes(osp, fmt) ==
    LET Rgx(name, prefix, capture) ==
            [name |-> name, prefix |-> prefix, capture |-> capture]
        Keys == [root_device |-> "%{root_device}",
                 lvm_root_lv |-> "%{lvm_root_lv}", version |-> "%{version}"]
        Before(w) == SubSeq(w, 1, Len(w) - 1)
        OfWord(w) ==
            IF w = <<"%{root_opts}">>
            THEN MakeFormatRegexes(osp, osp.root_opts_lvm2)
                     \o MakeFormatRegexes(osp, osp.root_opts_btrfs)
            ELSE IF w[Len(w)] = "%{btrfs_subvolume}"
            THEN << Rgx("btrfs_subvol_id",
                        Before(w) \o <<"subvolid", "=">>, TRUE),
                    Rgx("btrfs_subvol_path",
                        Before(w) \o <<"subvol", "=">>, TRUE) >>
            ELSE IF \E k \in DOMAIN Keys : w[Len(w)] = Keys[k]
            THEN << Rgx(CHOOSE k \in DOMAIN Keys : w[Len(w)] = Keys[k],
                        Before(w), TRUE) >>
            ELSE << Rgx("", w, FALSE) >>
        RECURSIVE OfWords(_)
        OfWords(ws) ==
            IF ws = <<>> THEN <<>> ELSE OfWord(Head(ws)) \o OfWords(Tail(ws))
    IN  OfWords(Split(fmt))

\* The text of a pair's expression, as from_entry reads r[1].
RegexText(rgx) ==
    IF rgx.capture THEN rgx.prefix \o <<"(\\S+)">> ELSE rgx.prefix

\* re.search / re.match of a pair's expression on a word.
Match(rgx, word) ==
    /\ Len(word) >= Len(rgx.prefix)
    /\ SubSeq(word, 1, Len(rgx.prefix)) = rgx.prefix
    /\ rgx.capture => Len(word) > Len(rgx.prefix)

\* match.group(1)
Group1(rgx, word) == SubSeq(word, Len(rgx.prefix) + 1, Len(word))

\* setattr(bp, name, value): a property setter for a field name, a plain
\* attribute (not modelled) for the empty name of a literal.
SetAttr(b, name, value) ==
    IF name = "" THEN b ELSE BpSetAttr(b, name, Some(value))

RECURSIVE MatchWords(_, _, _)
\* The inner loop of from_entry for one pair, over the words left:
\* acc = [bp, matches, value].
MatchWords(rgx, words, acc) ==
    IF words = <<>> THEN acc
    ELSE LET word == Head(words)
         IN  IF Match(rgx, word)
             THEN LET value == IF rgx.capture THEN Group1(rgx, word)
                               ELSE acc.value
                  IN  MatchWords(rgx, Tail(words),
                          [bp      |-> SetAttr(acc.bp, rgx.name, value),
                           matches |-> acc.matches \cup {word},
                           value   |-> value])
             ELSE MatchWords(rgx, Tail(words), acc)

RECURSIVE MatchRegexes(_, _, _)
\* The outer loop of from_entry: acc = [bp, matches].
MatchRegexes(regexes, words, acc) ==
    IF regexes = <<>> THEN acc
    ELSE LET rgx == Head(regexes)
             got == MatchWords(rgx, words,
                        [bp |-> acc.bp, matches |-> acc.matches,
                         value |-> <<>>])
             bp1 == IF rgx.name = "root_device" /\ got.value = <<>>
                    THEN SetAttr(got.bp, rgx.name, <<>>)
                    ELSE got.bp
         IN  MatchRegexes(Tail(regexes), words,
                          [bp |-> bp1, matches |-> got.matches])

\* A faulty is_add that takes every word for an added one.
IsAddAlways(opt, matches) == TRUE

\* is_add of from_entry
IsAdd(opt, matches) == opt \notin matches

\* is_del of from_entry
IsDel(opt, matches) ==
    LET ignore_bp == {<<"rootflags">>, <<"rd.lvm.lv">>, <<"subvol">>,
                      <<"subvolid">>}
        opt_name == OptName(opt)
        matched_opts == {OptName(k) : k \in matches}
    IN  opt_name \notin matched_opts /\ opt_name \notin ignore_bp

\* list(set(l)): the distinct elements of l in any order.
ListOfSet(l) ==
    LET S == SeqToSet(l)
    IN  {q \in [1..Cardinality(S) -> S] :
            \A i, j \in 1..Cardinality(S) : i # j => q[i] # q[j]}

\* BootParams.from_entry(be), given the order list(set(...)) produced for
\* add_opts: [res, out] with res "ValueError" (BootParams(version)
\* raised), "AttributeError" (no profile), "None" or "ok".
FromEntry(e, add_order) ==
    LET bp0 == BootParams(Version(e), None, None, None, None, <<>>, <<>>)
    IN  IF bp0 = None THEN [res |-> "ValueError", out |-> None]
        ELSE IF e.osp = None THEN [res |-> "AttributeError", out |-> None]
        ELSE LET opts_regexes == MakeFormatRegexes(e.osp[1], e.osp[1].options)
                 words == Split(Options(e)[1])
                 got == MatchRegexes(opts_regexes, words,
                                     [bp |-> bp0[1], matches |-> {}])
                 Add(o) == IsAdd(o, got.matches)
                 Del(r) == IsDel(RegexText(r), got.matches)
                 bp1 == BpSetAttr(got.bp, "add_opts", SelectSeq(words, Add))
                 bp2 == BpSetAttr(bp1, "add_opts", add_order)
                 dels == SelectSeq(opts_regexes, Del)
                 bp3 == BpSetAttr(bp2, "del_opts",
                            [i \in DOMAIN dels |-> RegexText(dels[i])])
             IN  IF opts_regexes = <<>> THEN [res |-> "None", out |-> None]
                 ELSE [res |-> "ok", out |-> Some(bp3)]

\* The words from_entry finds to be added ones, before list(set(...));
\* none where from_entry returns or raises before it looks for them.
FromEntryAdded(e) ==
    IF e.osp = None \/ ~Truthy(Version(e)) THEN <<>>
    ELSE IF MakeFormatRegexes(e.osp[1], e.osp[1].options) = <<>> THEN <<>>
    ELSE LET opts_regexes == MakeFormatRegexes(e.osp[1], e.osp[1].options)
             words == Split(Options(e)[1])
             bp0 == BootParams(Version(e), None, None, None, None, <<>>, <<>>)
             got == MatchRegexes(opts_regexes, words,
                                 [bp |-> bp0[1], matches |-> {}])
             Add(o) == IsAdd(o, got.matches)
         IN  SelectSeq(words, Add)

\* be.bp = BootParams.from_entry(be), as __from_data recovers the
\* BootParams of an entry; the debug message reads be.boot_id.
CallFromEntry ==
    /\ nops < MaxParamOps
    /\ nops' = nops + 1
    /\ \E add_order \in ListOfSet(FromEntryAdded(be)) :
          LET r == FromEntry(be, add_order)
          IN  /\ be' = IF r.res = "ValueError" THEN be
                       ELSE IF r.res = "AttributeError" THEN BootIdRead(be)
                       ELSE SetBpOf(BootIdRead(be), r.out)
              /\ last' = [op |-> "from_entry", res |-> r.res, pre |-> None,
                          args |-> Options(be), out |-> r.out]
    /\ UNCHANGED <<entries, fs, tmp, fds, pc, call, observed, nfaults>>

\* sorted(ENTRY_KEYS, reverse=True) on the BOOM_ENTRY_* names, by the
\* attribute names KEY_MAP gives them.
KeysSortedReverse ==
    <<"version", "title", "options", "machine_id", "linux", "initrd", "efi",
      "devicetree">>

\* The order of Python's str comparison on the literal values the entries
\* of ParamsEntries hold, told apart by their first atom, ascending.
PythonStringOrder == <<"3.3.3", "ffffffff", "ro", "root", "title">>

\* The place of a literal value in Python's str order.
StrRank(v) == CHOOSE i \in DOMAIN PythonStringOrder : PythonStringOrder[i] = Head(v)

RECURSIVE SortedReverse(_)
\* sorted(values, reverse=True)
SortedReverse(values) ==
    IF values = <<>> THEN <<>>
    ELSE LET i == CHOOSE j \in DOMAIN values :
                      \A k \in DOMAIN values :
                          \/ StrRank(values[j]) > StrRank(values[k])
                          \/ StrRank(values[j]) = StrRank(values[k]) /\ j <= k
             rest == [k \in 1..(Len(values) - 1) |->
                         IF k < i THEN values[k] ELSE values[k + 1]]
         IN  <<values[i]>> \o SortedReverse(rest)

\* BootEntry.__getitem__: None for a KeyError.
GetItem(e, key) ==
    IF key \in DOMAIN e.entry_data THEN Some(Some(e.entry_data[key]))
    ELSE IF key = "linux" THEN Some(Linux(e))
    ELSE IF key = "initrd" THEN Some(Initrd(e))
    ELSE IF key = "options" THEN Some(Options(e))
    ELSE IF key = "devicetree" THEN Some(Devicetree(e))
    ELSE IF key = "efi" THEN Some(Efi(e))
    ELSE IF e.bp # None /\ key = "version" THEN Some(e.bp[1].version)
    ELSE None

\* BootEntry.keys
Keys(e) ==
    LET Stored(k) == k \in DOMAIN e.entry_data
        Added(k) == k \notin DOMAIN e.entry_data
        add_keys == <<"linux", "initrd", "options">>
                        \o (IF e.bp # None THEN <<"version">> ELSE <<>>)
    IN  SelectSeq(KeysSortedReverse, Stored) \o SelectSeq(add_keys, Added)

\* BootEntry.values
Values(e) ==
    LET Stored(k) == k \in DOMAIN e.entry_data
        keys == SelectSeq(KeysSortedReverse, Stored)
        values == [i \in DOMAIN keys |-> e.entry_data[keys[i]]]
        sorted == SortedReverse(values)
        add_values == <<Linux(e), Initrd(e), Options(e)>>
                          \o (IF e.bp # None THEN <<Version(e)>> ELSE <<>>)
    IN  [i \in DOMAIN sorted |-> Some(sorted[i])] \o add_values

\* BootEntry.items
Items(e) ==
    LET Stored(k) == k \in DOMAIN e.entry_data
        keys == SelectSeq(KeysSortedReverse, Stored)
        add_items == << <<"linux", Linux(e)>>, <<"initrd", Initrd(e)>>,
                        <<"options", Options(e)>> >>
                         \o (IF e.bp # None THEN << <<"version", Version(e)>> >>
                             ELSE <<>>)
    IN  [i \in DOMAIN keys |-> <<keys[i], Some(e.entry_data[keys[i]])>>]
            \o add_items

\* A read of be.keys(), be.values() and be.items().
ReadViews ==
    /\ last' = [op |-> "views", res |-> "ok", pre |-> None, args |-> None,
                out |-> [keys |-> Keys(be), values |-> Values(be),
                         items |-> Items(be)]]
    /\ UNCHANGED <<be, entries, fs, tmp, fds, pc, call, observed, nops,
                   nfaults>>

\* A read of be.options.
ReadOptions ==
    /\ last' = [op |-> "options", res |-> "ok", pre |-> None,
                args |-> None, out |-> Options(be)]
    /\ UNCHANGED <<be, entries, fs, tmp, fds, pc, call, observed, nops,
                   nfaults>>

\* The patterns callers expand: text around one placeholder, the bare OS
\* descriptive placeholders of the _apply_format docstring, the kernel
\* pattern of the test profile, and text without a placeholder.
ProbeFormats ==
    {<<"A", " ", "%{root_device}", " ", "B">>,
     <<"A", " ", "%{version}", " ", "B">>,
     <<"A", " ", "%{lvm_root_opts}", " ", "B">>,
     <<"%{os_name}">>, <<"%{os_short_name}">>,
     <<"%{os_version}">>, <<"%{os_version_id}">>,
     <<"/vmlinuz-", "%{version}">>,
     <<"plain", " ", "text">>}

\* be._apply_format(fmt)
CallApplyFormat(fmt) ==
    /\ last' = [op |-> "apply_format", res |-> "ok", pre |-> None,
                args |-> fmt, out |-> ApplyFormat(be, fmt)]
    /\ UNCHANGED <<be, entries, fs, tmp, fds, pc, call, observed, nops,
                   nfaults>>

ParamsNext ==
    \/ \E fmt \in ProbeFormats : CallApplyFormat(fmt)
    \/ \E a \in ParamArgs : NewParams(a)
    \/ \E attr \in DOMAIN ParamSetValues :
           \E value \in ParamSetValues[attr] : ParamsSet(attr, value)
    \/ ReadOptions
    \/ CallFromEntry
    \/ ReadViews

ParamsSpec == ParamsInit /\ [][ParamsNext]_vars

(***************************************************************************)
(* Construction and loading: entries built from keyword arguments, from    *)
(* an entry_data mapping and from entry files, with the profiles and the   *)
(* host profiles the collaborators have loaded; write_entry and            *)
(* load_entries on the entries directory.                                  *)
(***************************************************************************)
\* The OS profiles boom.osprofile has loaded.
LoadedProfiles == {TestProfile}

\* get_os_profile_by_id(os_id), of the profile collaborator: the loaded
\* profile with that identifier, None for none.
ProfileById(os_id) ==
    IF \E osp \in LoadedProfiles : osp.os_id = os_id
    THEN Some(CHOOSE osp \in LoadedProfiles : osp.os_id = os_id)
    ELSE None

\* What match_os_profile(be), of the profile collaborator, may answer: the
\* first loaded profile that recognises the entry, None for none.
ProbedProfiles == {None} \cup {Some(osp) : osp \in LoadedProfiles}

\* The machine_id a host profile is loaded for.
HostMachineId == <<"hhhhhhhh">>

\* The host profile boom.hostprofile has loaded: the OS profile it wraps,
\* with the host's own add_opts and del_opts strings.
TestHostProfile ==
    [k \in DOMAIN TestProfile \cup {"machine_id", "add_opts", "del_opts"} |->
        CASE k = "machine_id" -> HostMachineId
          [] k = "add_opts"   -> <<"hostopt">>
          [] k = "del_opts"   -> <<"rhgb">>
          [] OTHER            -> TestProfile[k]]

\* find_host_profiles(Selection(machine_id=machine_id)), of the host
\* profile collaborator.
FindHostProfiles(machine_id) ==
    IF machine_id = HostMachineId THEN <<TestHostProfile>> ELSE <<>>

\* hasattr(self._osp, name)
HasAttr(osp, name) == osp # None /\ name \in DOMAIN osp[1]

\* BootEntry.__match_host_profile: [res, out], res "AttributeError" when
\* the host's options are to be stored in a BootParams that is None.
MatchHostProfile(e) ==
    LET hps == IF "machine_id" \in DOMAIN e.entry_data
               THEN FindHostProfiles(e.entry_data["machine_id"]) ELSE <<>>
        e1 == IF hps # <<>> THEN [e EXCEPT !.osp = Some(hps[1])] ELSE e
        Import(x, name) ==
            IF HasAttr(x.osp, name)
            THEN [x EXCEPT !.bp = Some(BpSetAttr(x.bp[1], name,
                                                 Split(x.osp[1][name])))]
            ELSE x
    IN  IF (HasAttr(e1.osp, "add_opts") \/ HasAttr(e1.osp, "del_opts"))
           /\ e1.bp = None
        THEN [res |-> "AttributeError", out |-> None]
        ELSE [res |-> "ok",
              out |-> Some(Import(Import(e1, "add_opts"), "del_opts"))]

\* BootEntry.__init__(title, machine_id, osprofile, boot_params,
\* allow_no_dev=True) with the profile probe answering `probed`:
\* [res, out], out the object when res is "ok".
InitBootEntry(title, machine_id, osprofile, boot_params, probed) ==
    LET Raise(res) == [res |-> res, out |-> None]
        title_empty == IF osprofile # None THEN osprofile[1].title = <<>>
                       ELSE ~Truthy(title)
        e0 == [entry_data    |-> <<>>,
               bp            |-> None,
               bp_generation |-> 0,
               boot_id       |-> None,
               unwritten     |-> TRUE,
               last_path     |-> None,
               comments      |-> None,
               osp           |-> osprofile]
        e1 == SetBpOf(e0, boot_params)
        e2 == IF Truthy(title) THEN SetEntryData(e1, "title", title[1]) ELSE e1
        e3 == SetEntryData(e2, "machine_id", machine_id[1])
        e4 == IF e3.osp = None THEN [e3 EXCEPT !.osp = probed] ELSE e3
    IN  IF ~Truthy(machine_id) THEN Raise("ValueError")
        ELSE IF ~Truthy(title) /\ title_empty THEN Raise("ValueError")
        ELSE MatchHostProfile(e4)

\* _pop_if_set over version, linux, initrd and options: the stored keys
\* whose value is the one the template gives while nothing is stored.
PoppedKeys(e) ==
    LET bare == [e EXCEPT !.entry_data = <<>>]
    IN  {k \in {"version", "linux", "initrd", "options"} \cap DOMAIN e.entry_data :
            Some(e.entry_data[k]) = GetAttr(bare, k)}

\* The object __from_data hands to BootParams.from_entry: the class
\* defaults, the profile given or probed, and the stored keys.
DataEntry(entry_data, osprofile, probed, comments) ==
    [entry_data    |-> entry_data,
     bp            |-> None,
     bp_generation |-> 0,
     boot_id       |-> None,
     unwritten     |-> FALSE,
     last_path     |-> None,
     comments      |-> comments,
     osp           |-> IF osprofile = None THEN probed ELSE osprofile]

\* The one element of a singleton set: {body : x \in {value}} names a
\* value that body uses more than once.
Only(S) == CHOOSE x \in S : TRUE

\* __from_data, the BootParams of the entry: the one given, whose version
\* is stored, or the one from_entry recovers after the boot_id is read.
\* [res, out], res the exception from_entry raised.
FromDataParams(e0, boot_params, add_order) ==
    IF boot_params # None
    THEN [res |-> "ok",
          out |-> Some([SetBpOf(e0, boot_params) EXCEPT
                           !.entry_data = Put(@, "version",
                                              boot_params[1].version[1])])]
    ELSE Only({IF r.res \in {"ValueError", "AttributeError"}
               THEN [res |-> r.res, out |-> None]
               ELSE [res |-> "ok", out |-> Some(SetBpOf(BootIdRead(e0), r.out))] :
                  r \in {FromEntry(e0, add_order)}})

\* __from_data, the trailing _pop_if_set block, entered when the entry
\* has a BootParams.
PopIfSet(e) ==
    IF e.bp = None THEN e
    ELSE Only({[e EXCEPT !.entry_data = [k \in DOMAIN @ \ popped |-> @[k]]] :
                  popped \in {PoppedKeys(e)}})

\* BootEntry.__from_data(entry_data, boot_params) on the object e0 that
\* DataEntry gives, with add_order the order list(set(...)) produced in
\* from_entry: [res, out].
FromData(e0, boot_params, add_order) ==
    IF "title" \notin DOMAIN e0.entry_data
    THEN [res |-> "ValueError", out |-> None]
    ELSE IF "linux" \notin DOMAIN e0.entry_data
            /\ "efi" \notin DOMAIN e0.entry_data
    THEN [res |-> "ValueError", out |-> None]
    ELSE Only({IF p.res # "ok" THEN p
               ELSE Only({IF h.res # "ok" THEN h
                          ELSE Only({[res |-> "ok", out |-> Some(PopIfSet(e2))] :
                                        e2 \in {h.out[1]}}) :
                             h \in {MatchHostProfile(p.out[1])}}) :
                  p \in {FromDataParams(e0, boot_params, add_order)}})

\* "#OsIdentifier: %s\n" % os_id
OsIdentifierLine(os_id) == <<"#OsIdentifier", ":", " ">> \o os_id

\* The text of an entry file, line by line: the "#OsIdentifier" line
\* write_entry puts at the top, then for each key the comment block kept
\* for it and its "<key> <value>" line.  A line is [kind, key, text].
FileText(f) ==
    LET Comment(text) == [kind |-> "comment", key |-> "", text |-> text]
        KeyLine(l) == [kind |-> "key", key |-> TransformKey(l[1]), text |-> l[2]]
        Block(k) == IF k \in DOMAIN f.comments THEN f.comments[k] ELSE <<>>
        RECURSIVE From(_)
        From(i) ==
            IF i > Len(f.lines) THEN <<>>
            ELSE LET block == Block(TransformKey(f.lines[i][1]))
                 IN  [j \in DOMAIN block |-> Comment(block[j])]
                         \o <<KeyLine(f.lines[i])>> \o From(i + 1)
    IN  (IF f.os_id # None THEN <<Comment(OsIdentifierLine(f.os_id[1]))>>
         ELSE <<>>) \o From(1)

\* "OsIdentifier:" in line
HasOsIdentifier(line) ==
    \E i \in 1..(Len(line) - 1) : line[i] = "#OsIdentifier" /\ line[i + 1] = ":"

RECURSIVE Strip(_)
\* str.strip()
Strip(t) ==
    IF t = <<>> THEN <<>>
    ELSE IF Head(t) = " " THEN Strip(Tail(t))
    ELSE IF t[Len(t)] = " " THEN Strip(SubSeq(t, 1, Len(t) - 1))
    ELSE t

RECURSIVE OsIdFromLines(_, _, _)
\* The loop of __os_id_from_comment over the lines left: line.split(":")
\* must give two parts; the first identifier of a loaded profile is taken
\* when the entry has no profile yet, every other line is kept.
OsIdFromLines(lines, osp, outlines) ==
    IF lines = <<>> THEN [res |-> "ok", out |-> Some(outlines), osp |-> osp]
    ELSE LET line == Head(lines)
             colons == {i \in DOMAIN line : line[i] = ":"}
             at == CHOOSE i \in colons : TRUE
             os_id == Strip(SubSeq(line, at + 1, Len(line)))
             found == ProfileById(os_id)
         IN  IF Cardinality(colons) # 1
             THEN [res |-> "ValueError", out |-> None, osp |-> osp]
             ELSE IF osp = None /\ found # None
             THEN OsIdFromLines(Tail(lines), found, outlines)
             ELSE OsIdFromLines(Tail(lines), osp, Append(outlines, line))

\* BootEntry.__os_id_from_comment: [res, out, osp], out None when the
\* comment names no OsIdentifier (the bare return).
OsIdFromComment(comment, osp) ==
    IF ~\E i \in DOMAIN comment : HasOsIdentifier(comment[i])
    THEN [res |-> "ok", out |-> None, osp |-> osp]
    ELSE OsIdFromLines(comment, osp, <<>>)

\* One iteration of the loop of __from_file.  acc is [res, entry_data,
\* comments, comment, osp]; comment is the block being collected, None
\* once __os_id_from_comment has returned None.
ScanLine(line, acc) ==
    LET stored == [acc EXCEPT !.entry_data = Put(@, line.key, line.text)]
        r == OsIdFromComment(acc.comment[1], acc.osp)
    IN  IF line.kind = "comment"
        THEN IF acc.comment = None
             THEN [acc EXCEPT !.res = "TypeError"]
             ELSE [acc EXCEPT !.comment = Some(Append(@[1], line.text))]
        ELSE IF ~Truthy(acc.comment) THEN stored
        ELSE IF r.res # "ok" THEN [acc EXCEPT !.res = r.res]
        ELSE IF ~Truthy(r.out)
        THEN [stored EXCEPT !.comment = r.out, !.osp = r.osp]
        ELSE [stored EXCEPT !.comments = Put(@, line.key, r.out[1]),
                            !.comment = Some(<<>>), !.osp = r.osp]

RECURSIVE ScanLines(_, _)
\* The loop of __from_file over the lines left; an exception ends it.
ScanLines(text, acc) ==
    IF text = <<>> \/ acc.res # "ok" THEN acc
    ELSE Only({ScanLines(rest, next) :
                  rest \in {Tail(text)}, next \in {ScanLine(Head(text), acc)}})

\* The with block of __from_file on the file's text.
ScanFile(f) ==
    ScanLines(FileText(f),
              [res |-> "ok", entry_data |-> <<>>, comments |-> <<>>,
               comment |-> Some(<<>>), osp |-> None])

\* The object __from_file hands to __from_data.
FileEntry(f, probed) ==
    LET scan == ScanFile(f)
    IN  DataEntry(scan.entry_data, scan.osp, probed, Some(scan.comments))

\* BootEntry.__from_file(entry_file, None) after the with block, which
\* ended with scanned and left the object e0: [res, out].  The name of
\* the file matches BOOT_ENTRIES_PATTERN, so disp_boot_id is read.
FromFile(path, scanned, e0, add_order) ==
    LET r == FromData(e0, None, add_order)
    IN  IF scanned # "ok" THEN [res |-> scanned, out |-> None]
        ELSE IF r.res # "ok" THEN r
        ELSE [res |-> "ok",
              out |-> Some([BootIdRead(r.out[1]) EXCEPT
                               !.last_path = Some(path),
                               !.unwritten = FALSE])]

\* The BootParams callers construct entries with: none, a plain one, and
\* one with add_opts and del_opts of its own.
LoadParams ==
    {None,
     BootParams(Some(<<"1.1.1">>), Some(<<"/dev/sda5">>), None, None, None,
                <<>>, <<>>),
     BootParams(Some(<<"1.1.1">>), Some(<<"/dev/sda5">>), None, None, None,
                << <<"debug">>, <<"single">> >>, << <<"quiet">> >>)}

\* The entry_data of the "Valid entry" of test_BootEntry_from_entry_data.
ValidEntryData ==
    [title      |-> <<"title">>,
     machine_id |-> <<"ffffffff">>,
     version    |-> <<"1.1.1">>,
     linux      |-> <<"/vmlinuz-", "1.1.1">>,
     initrd     |-> <<"/initramfs-", "1.1.1", ".img">>,
     options    |-> <<"root", "=", "/dev/sda5", " ", "ro">>]

\* d without the key k.
Without(d, k) == [x \in DOMAIN d \ {k} |-> d[x]]

\* The entry_data mappings callers construct entries from: the valid one,
\* the same without title, linux or machine_id, with a non-template word
\* in the middle of the options, and for the machine of the host profile.
EntryDataSets ==
    {ValidEntryData,
     Without(ValidEntryData, "title"),
     Without(ValidEntryData, "linux"),
     Without(ValidEntryData, "machine_id"),
     [ValidEntryData EXCEPT !.options =
         <<"root", "=", "/dev/sda5", " ", "ro", " ", "rhgb", " ", "quiet">>],
     [ValidEntryData EXCEPT !.machine_id = HostMachineId]}

\* The path of a hand-written entry file.
ManualPath(name) ==
    [machine_id |-> Some(<<"ffffffff">>),
     boot_id    |-> [sha1_7 |-> << <<"manual", <<name>> >> >>],
     version    |-> Some(<<"1.1.1">>)]

\* A hand-written entry file with the given comment blocks.
ManualFile(comments) ==
    [os_id    |-> None,
     lines    |-> << <<"title", <<"manual">> >>,
                     <<"machine-id", <<"ffffffff">> >>,
                     <<"version", <<"1.1.1">> >>,
                     <<"linux", <<"/vmlinuz-", "1.1.1">> >>,
                     <<"options", <<"root", "=", "/dev/sda5", " ", "ro">> >> >>,
     comments |-> comments,
     complete |-> TRUE,
     synced   |-> TRUE,
     mode     |-> BOOT_ENTRY_MODE]

\* The entries directory before the first call: empty, or holding one
\* hand-written file: with the OsIdentifier comment and a "note: kept"
\* comment before the title and a comment before the linux key, or with
\* no OsIdentifier, a comment before the title and a blank line before
\* the options.
InitialDirectories ==
    {<<>>,
     Put(<<>>, ManualPath("a"),
         ManualFile([title |-> <<OsIdentifierLine(TestProfile.os_id),
                                 <<"#", " ", "note", ":", " ", "kept">> >>,
                     linux |-> << <<"#", " ", "kernel">> >>])),
     Put(<<>>, ManualPath("b"),
         ManualFile([title   |-> << <<"#", " ", "note">> >>,
                     options |-> << <<>> >>]))}

LoadInit ==
    /\ be = NewBootEntry(<<"title">>, <<"ffffffff">>, None, None)
    /\ entries = <<>>
    /\ fs \in InitialDirectories
    /\ tmp = <<>>
    /\ fds = 0
    /\ pc = "idle"
    /\ call = NoCall
    /\ last = [op |-> "none", res |-> "none", pre |-> None]
    /\ observed = "nothing"
    /\ nops = 0
    /\ nfaults = 0

\* A constructor is the first call of a scenario.
CanConstruct == CanCall /\ nops = 0

\* A constructor call returns the object, which becomes the entry under
\* study, or raises.
Constructed(op, args, r) ==
    /\ nops' = nops + 1
    /\ be' = IF r.res = "ok" THEN r.out[1] ELSE be
    /\ last' = [op |-> op, res |-> r.res, pre |-> None, args |-> args,
                out |-> r.out]
    /\ UNCHANGED <<entries, fs, tmp, fds, pc, call, observed, nfaults>>

\* be = BootEntry(title=, machine_id=, osprofile=, boot_params=,
\* allow_no_dev=True)
NewEntry(title, machine_id, osprofile, boot_params, probed) ==
    /\ CanConstruct
    /\ \E r \in {InitBootEntry(title, machine_id, osprofile, boot_params,
                               probed)} :
           Constructed("BootEntry",
                       [title |-> title, machine_id |-> machine_id,
                        osprofile |-> osprofile, boot_params |-> boot_params],
                       r)

\* be = BootEntry(entry_data=, osprofile=, boot_params=)
NewEntryFromData(entry_data, osprofile, boot_params, probed) ==
    /\ CanConstruct
    /\ \E e0 \in {DataEntry(entry_data, osprofile, probed, None)} :
       \E add_order \in ListOfSet(IF boot_params = None
                                  THEN FromEntryAdded(e0) ELSE <<>>) :
       \E r \in {FromData(e0, boot_params, add_order)} :
           Constructed("from_data",
                       [entry_data |-> entry_data, osprofile |-> osprofile,
                        boot_params |-> boot_params, probed |-> probed],
                       r)

\* be = BootEntry(entry_file=path), for a file of the entries directory.
NewEntryFromFile ==
    /\ CanConstruct
    /\ \E path \in DOMAIN fs : \E probed \in ProbedProfiles :
       \E e0 \in {FileEntry(fs[path], probed)} :
       \E add_order \in ListOfSet(FromEntryAdded(e0)) :
       \E r \in {FromFile(path, ScanFile(fs[path]).res, e0, add_order)} :
           Constructed("from_file", [path |-> path, file |-> fs[path]], r)

\* load_entries(): drop_entries, then one BootEntry per *.conf file of
\* the directory, in the order listdir gives.  The index now holds the
\* loaded objects; the scenarios explored end with the load.
LoadEntries ==
    /\ CanCall
    /\ nops' = MaxOps
    /\ entries' = <<>>
    /\ pc' = "load"
    /\ call' = [op |-> "load_entries", entry_path |-> None, pre |-> None,
                todo |-> DOMAIN fs]
    /\ UNCHANGED <<be, fs, tmp, fds, last, observed, nfaults>>

\* One iteration of the loop of load_entries: _add_entry(BootEntry(
\* entry_file=entry_path)), an exception logged and dropped; _add_entry
\* compares boot_ids (BootEntry.__eq__).
LoadEntriesFile ==
    /\ pc = "load"
    /\ \E path \in call.todo : \E probed \in ProbedProfiles :
       \E e0 \in {FileEntry(fs[path], probed)} :
       \E add_order \in ListOfSet(FromEntryAdded(e0)) :
       \E r \in {FromFile(path, ScanFile(fs[path]).res, e0, add_order)} :
       \E known \in {r.res = "ok" /\ \E i \in DOMAIN entries :
                        BootId(entries[i]) = BootId(r.out[1])} :
           /\ entries' = IF r.res = "ok" /\ ~known
                         THEN Append(entries, r.out[1]) ELSE entries
           /\ call' = [call EXCEPT !.todo = @ \ {path}]
    /\ UNCHANGED <<be, fs, tmp, fds, pc, last, observed, nops, nfaults>>

\* load_entries returns.
LoadEntriesDone ==
    /\ pc = "load"
    /\ call.todo = {}
    /\ Finish("load_entries", "ok", None)
    /\ UNCHANGED <<be, entries, fs, tmp, fds, nops, nfaults>>

LoadNext ==
    \/ \E title \in {None, Some(<<"title">>)} :
       \E machine_id \in {None, Some(<<"ffffffff">>), Some(HostMachineId)} :
       \E boot_params \in LoadParams :
          \/ NewEntry(title, machine_id, Some(TestProfile), boot_params, None)
          \/ \E probed \in ProbedProfiles :
                 NewEntry(title, machine_id, None, boot_params, probed)
    \/ \E entry_data \in EntryDataSets : \E boot_params \in LoadParams :
          \/ NewEntryFromData(entry_data, Some(TestProfile), boot_params, None)
          \/ \E probed \in ProbedProfiles :
                 NewEntryFromData(entry_data, None, boot_params, probed)
    \/ NewEntryFromFile
    \/ \E force \in BOOLEAN : WriteEntry(force)
    \/ WriteLine
    \/ WriteLineFails
    \/ Fdatasync
    \/ Rename
    \/ Chmod
    \/ LoadEntries
    \/ LoadEntriesFile
    \/ LoadEntriesDone

LoadSpec == LoadInit /\ [][LoadNext]_vars

(***************************************************************************)
(* Properties                                                              *)
(***************************************************************************)
\* C1: boot_id always equals the digest of the entry's current canonical
\* serialization, for clean and dirty entries alike, after any sequence of
\* setters, item assignments, bp replacements and BootParams setters.
BootIdIsDigestOfSerialization == BootId(be) = GenerateBootId(be)

\* C2: a property setter, a replacement of bp or a BootParams setter on a
\* clean entry makes the entry dirty: a write_entry() without force that
\* directly follows it is never a no-op.
MutationMakesNextWriteWrite ==
    [][(/\ last.op \in {"set", "bp_set"}
        /\ last.res = "ok"
        /\ ~last.pre[1].unwritten)
       => ~(nops' = nops + 1 /\ last'.op = "write_entry" /\ last'.res = "noop")]_vars

\* C3: when update_entry returns for an entry that had a file on disk, a
\* file holding the entry exists at the entry's current path: the old file
\* is never removed while no new file has landed.
UpdateKeepsAFileOfTheEntry ==
    (/\ pc = "idle" /\ last.op = "update_entry" /\ last.res = "ok"
     /\ last.pre[1].had_file)
    => PathExists(EntryPath(be), fs)

\* C4: after update_entry succeeds (no I/O failure) on a persisted entry,
\* the file at the previous path is gone if and only if the entry's path
\* differs from the previous one, and with an unchanged path the file in
\* place holds the new content.
UpdateUnlinksOldIffPathDiffers ==
    (/\ pc = "idle" /\ last.op = "update_entry" /\ last.res = "ok"
     /\ last.pre[1].had_file /\ nfaults = 0)
    => LET old == last.pre[1].last_path[1]
       IN  /\ ~PathExists(old, fs) <=> EntryPath(be) # old
           /\ EntryPath(be) = old => fs[old].lines = EntryStr(be)

\* C5: write_entry(force=False) on an entry that is not dirty changes
\* nothing: no temporary file, no file written, renamed or chmod-ed, and
\* the unwritten flag, last path, cached boot_id and the index unchanged.
CleanWriteChangesNothing ==
    [][(~be.unwritten /\ WriteEntry(FALSE))
       => UNCHANGED <<be, entries, fs, tmp, fds>>]_vars

\* C5 witness: a non-forced write_entry on a written entry has returned
\* as a no-op.
CleanWriteHappened ==
    /\ pc = "idle" /\ last.op = "write_entry" /\ last.res = "noop"
    /\ ~last.pre[1].unwritten /\ last.pre[1].had_file

\* C6: after write_entry returns successfully the entry is clean, last_path
\* is the entry's path, a file holding the entry's current serialization
\* exists there, and the entry is in the index.
WrittenEntryIsCleanAndIndexed ==
    (pc = "idle" /\ last.op = "write_entry" /\ last.res = "ok")
    => /\ ~be.unwritten
       /\ be.last_path = Some(EntryPath(be))
       /\ PathExists(EntryPath(be), fs)
       /\ fs[EntryPath(be)].lines = EntryStr(be)
       /\ fs[EntryPath(be)].complete
       /\ fs[EntryPath(be)].mode = BOOT_ENTRY_MODE
       /\ "be" \in SeqToSet(entries)

\* C6 witness: write_entry has written a dirty entry and returned.
DirtyEntryWritten ==
    /\ pc = "idle" /\ last.op = "write_entry" /\ last.res = "ok"
    /\ last.pre[1].unwritten

\* C7: a concurrent reader of the *.conf files never observes a partially
\* written file: every file at a canonical path is complete and was synced
\* before the rename made it visible.
ReaderSeesOnlyCompleteFiles ==
    /\ observed # "partial"
    /\ \A p \in DOMAIN fs : fs[p].complete /\ fs[p].synced

\* C7 witness: the reader has read an entry file while the temporary file
\* of a write in progress was partly written.
ReaderReadDuringWrite ==
    /\ pc = "with" /\ CurTmp.lines # <<>> /\ ~CurTmp.complete
    /\ observed = "complete"

\* C8: when writing, syncing, renaming or chmod fails in write_entry the
\* error reaches the caller, no temporary file remains, no half-written
\* file is at a canonical path, and the entry's state is unchanged.
FailedWriteLeavesNothingBehind ==
    (/\ pc = "idle" /\ last.op = "write_entry" /\ last.res = "error"
     /\ last.pre[1].unwritten)
    => /\ tmp = <<>>
       /\ \A p \in DOMAIN fs : fs[p].complete
       /\ be.unwritten
       /\ be.last_path = last.pre[1].last_path
       /\ "be" \in SeqToSet(entries) <=> last.pre[1].in_index

\* C9: after delete_entry succeeds the entry's file no longer exists and
\* the entry is not in the index, whatever its dirty flag was.
DeletedEntryLeavesDiskAndIndex ==
    (pc = "idle" /\ last.op = "delete_entry" /\ last.res = "ok")
    => /\ ~PathExists(EntryPath(be), fs)
       /\ "be" \notin SeqToSet(entries)

\* C10: delete_entry on an entry whose file does not exist raises
\* ValueError and leaves the file system and the index unchanged.
DeleteOfMissingFileRaises ==
    [][(DeleteEntry /\ EntryPath(be) \notin DOMAIN fs)
       => /\ last'.op = "delete_entry" /\ last'.res = "ValueError"
          /\ UNCHANGED <<fs, entries>>]_vars

\* C10 witness: delete_entry has raised ValueError while another file of
\* the entry was on disk.
DeleteRaisedValueError ==
    /\ pc = "idle" /\ last.op = "delete_entry" /\ last.res = "ValueError"
    /\ fs # <<>>

\* C11: a constructed BootParams, after any sequence of its field setters,
\* has a non-empty version and at most one of btrfs_subvol_path and
\* btrfs_subvol_id set.
ParamsKeepVersionAndOneSubvol ==
    be.bp # None
    => /\ Truthy(be.bp[1].version)
       /\ ~(be.bp[1].btrfs_subvol_path # None /\ be.bp[1].btrfs_subvol_id # None)

GenerationCountsMutations ==
    [][(be.bp # None /\ be'.bp # None /\ ~SetBp(ReplacementBootParams))
       => LET g == be.bp[1].generation
              h == be'.bp[1].generation
              mutation == \/ \E a \in DOMAIN BootParamsValues :
                                \E v \in BootParamsValues[a] : BpSet(a, v)
                          \/ \E v \in PropertyValues["version"] :
                                SetItem("version", v)
          IN  /\ h >= g
              /\ mutation => h > g
              /\ be'.bp # be.bp => h > g
              /\ h # g => mutation]_vars

\* C13 witness: two setters of the BootParams have run since the entry
\* was constructed.
GenerationAdvancedTwice ==
    /\ be.bp # None /\ last.op = "bp_set"
    /\ be.bp[1].generation >= InitialBootParams[1].generation + 2

\* C14: in the options getter a delete spec "name=" removes every token
\* whose name part is name, a spec "name=value" or "name" removes exactly
\* the tokens equal to it, and every other token is kept in its order.
DeleteSpecsRemoveExactlyTheirTokens ==
    (/\ last.op = "options" /\ be.bp # None /\ be.bp[1].add_opts = <<>>
     /\ "options" \in DOMAIN be.entry_data)
    => LET drop == SeqToSet(be.bp[1].del_opts)
           Wild(spec) == spec # <<>> /\ spec[Len(spec)] = "="
           Hit(spec, tok) ==
               IF Wild(spec)
               THEN OptName(tok) = SubSeq(spec, 1, Len(spec) - 1)
               ELSE tok = spec
           Kept(tok) == \A spec \in drop : ~Hit(spec, tok)
       IN  Split(last.out[1])
               = SelectSeq(Split(be.entry_data["options"]), Kept)

\* C14 witness: options was read with the wildcard spec "root=" on a
\* string holding root tokens with two values, and with the exact spec
\* "root=/dev/sda5" on the same string.
WildcardSpecApplied ==
    /\ last.op = "options" /\ be.bp # None /\ be.bp[1].add_opts = <<>>
    /\ "options" \in DOMAIN be.entry_data
    /\ be.bp[1].del_opts = << <<"root", "=">> >>
    /\ Split(last.out[1]) = << <<"ro">>, <<"quiet">>, <<"quiet", "=", "1">> >>

\* C15: the options getter computes delete(append(base, add_opts),
\* del_opts) for a literal and for a templated base: the add_opts words
\* follow the base words and the delete specs apply to the whole, so an
\* added word matching a delete spec is not in the result.
AppendThenDelete ==
    (last.op = "options" /\ be.bp # None
     /\ ("options" \in DOMAIN be.entry_data \/ be.osp # None))
    => LET base == IF "options" \in DOMAIN be.entry_data
                   THEN be.entry_data["options"]
                   ELSE ApplyFormat(be, be.osp[1].options)
           drop == SeqToSet(be.bp[1].del_opts)
           Gone(tok) == tok \in drop \/ (OptName(tok) \o <<"=">>) \in drop
           Kept(tok) == ~Gone(tok)
           words == Split(last.out[1])
       IN  /\ words = SelectSeq(Split(base) \o be.bp[1].add_opts, Kept)
           /\ \A i \in DOMAIN be.bp[1].add_opts :
                  Gone(be.bp[1].add_opts[i])
                  => be.bp[1].add_opts[i] \notin SeqToSet(words)

\* C15 witness: options was read from a templated base with an added word
\* that a delete spec cancels.
AddedWordCancelled ==
    /\ last.op = "options" /\ be.bp # None /\ be.osp # None
    /\ "options" \notin DOMAIN be.entry_data
    /\ <<"debug">> \in SeqToSet(be.bp[1].add_opts)
    /\ <<"debug">> \in SeqToSet(be.bp[1].del_opts)
    /\ <<"debug">> \notin SeqToSet(Split(last.out[1]))
    /\ <<"root", "=", "/dev/sdz9">> \in SeqToSet(Split(last.out[1]))

VersionKeyIsEntryVersion ==
    (/\ last.op = "apply_format" /\ last.args = <<"/vmlinuz-", "%{version}">>
     /\ be.bp # None /\ Version(be) # None)
    => last.out = <<"/vmlinuz-">> \o Version(be)[1]

\* C18: with a profile attached each of %{os_name}, %{os_short_name},
\* %{os_version} and %{os_version_id} expands to the profile's attribute
\* of that name; without a profile each stays verbatim.
OsKeysExpandToProfileAttributes ==
    last.op = "apply_format"
    => LET Expands(key, attr) ==
               last.args = <<key>>
               => last.out = IF be.osp = None THEN <<key>>
                             ELSE be.osp[1][attr]
       IN  /\ Expands("%{os_name}", "os_name")
           /\ Expands("%{os_short_name}", "os_short_name")
           /\ Expands("%{os_version}", "os_version")
           /\ Expands("%{os_version_id}", "os_version_id")

\* C19: BootParams.from_entry returns None and raises no error for every
\* entry whose profile's options template yields no regexes, whatever the
\* entry's version and options are.
EmptyTemplateGivesNone ==
    (last.op = "from_entry" /\ be.osp # None /\ be.osp[1].options = <<>>)
    => last.res = "None"

\* C20: after from_entry returns a BootParams, every word of the entry's
\* options is either matched by a template regex or in add_opts, never
\* both, and add_opts has no duplicate and no word absent from the
\* options.
UnmatchedWordsBecomeAddOpts ==
    (last.op = "from_entry" /\ last.res = "ok")
    => LET words == SeqToSet(Split(last.args[1]))
           regexes == MakeFormatRegexes(be.osp[1], be.osp[1].options)
           Matched(w) == \E i \in DOMAIN regexes : Match(regexes[i], w)
           add == last.out[1].add_opts
       IN  /\ \A w \in words : Matched(w) <=> w \notin SeqToSet(add)
           /\ \A i, j \in DOMAIN add : i # j => add[i] # add[j]
           /\ SeqToSet(add) \subseteq words

\* C20 witness: from_entry has recovered a BootParams from options with a
\* repeated unmatched word, a second unmatched word and matched words.
RepeatedWordAddedOnce ==
    /\ last.op = "from_entry" /\ last.res = "ok"
    /\ Len(Split(last.args[1])) = 5
    /\ SeqToSet(last.out[1].add_opts) = {<<"ro">>, <<"debug">>}
    /\ Len(last.out[1].add_opts) = 2
    /\ last.out[1].lvm_root_lv = Some(<<"vg00/lvol0">>)

\* C25: after delete_entry has removed the entry's file, a write_entry()
\* without force on the same entry is no no-op: it writes the file again.
WriteAfterDeleteWrites ==
    [][(/\ pc = "idle" /\ last.op = "delete_entry" /\ last.res = "ok"
        /\ WriteEntry(FALSE))
       => last'.res # "noop"]_vars

\* C28: every descriptor write_entry opens is closed when it returns or
\* raises: no descriptor is held while no call is running.
DescriptorsClosedOnReturn == pc = "idle" => fds = 0

\* C29: delete_entry on an entry that was persisted and then modified
\* without being rewritten removes the file at last_path and raises no
\* not-found error while that file exists.
DeleteRemovesLastWrittenFile ==
    (/\ pc = "idle" /\ last.op = "delete_entry" /\ nfaults = 0
     /\ last.pre[1].had_file /\ last.pre[1].unwritten)
    => /\ last.res = "ok"
       /\ ~PathExists(last.pre[1].last_path[1], fs)

\* C26: from_entry sets the field a template regex names from the first
\* word of the options, left to right, that matches the regex; later
\* matching words do not change it.
FirstMatchIsRecovered ==
    (last.op = "from_entry" /\ last.res = "ok")
    => LET words == Split(last.args[1])
           regexes == MakeFormatRegexes(be.osp[1], be.osp[1].options)
       IN  \A i \in DOMAIN regexes :
               LET hits == SelectSeq(words, LAMBDA w : Match(regexes[i], w))
               IN  (regexes[i].capture /\ hits # <<>>)
                   => last.out[1][regexes[i].name]
                          = Some(Group1(regexes[i], hits[1]))

\* C27: keys(), values() and items() of an entry agree: items() is the
\* zip of keys() and values(), no key is listed twice, and be[k] = v for
\* every (k, v) of items().
ViewsAgree ==
    last.op = "views"
    => LET keys == last.out.keys
           values == last.out.values
           items == last.out.items
       IN  /\ Len(keys) = Len(values)
           /\ items = [i \in DOMAIN keys |-> <<keys[i], values[i]>>]
           /\ \A i, j \in DOMAIN items : i # j => items[i][1] # items[j][1]
           /\ \A i \in DOMAIN items :
                  GetItem(be, items[i][1]) = Some(items[i][2])

\* C24: construction raises when a required field is missing: an
\* entry_data without title, without machine_id, or with neither linux
\* nor efi; keyword arguments with an empty title and no profile title,
\* or with an empty machine_id.
MissingFieldRaises ==
    /\ (/\ last.op = "from_data"
        /\ \/ "title" \notin DOMAIN last.args.entry_data
           \/ "machine_id" \notin DOMAIN last.args.entry_data
           \/ /\ "linux" \notin DOMAIN last.args.entry_data
              /\ "efi" \notin DOMAIN last.args.entry_data)
       => last.res = "ValueError"
    /\ (/\ last.op = "BootEntry"
        /\ \/ ~Truthy(last.args.machine_id)
           \/ /\ ~Truthy(last.args.title)
              /\ \/ last.args.osprofile = None
                 \/ last.args.osprofile[1].title = <<>>)
       => last.res = "ValueError"

\* C21: when a host profile with add_opts and del_opts is attached to an
\* entry constructed with a BootParams that has lists of its own, the
\* effective lists are the host's followed by the BootParams' own.
HostOptionsAhead ==
    (/\ last.op \in {"BootEntry", "from_data"}
     /\ last.res = "ok"
     /\ last.args.boot_params # None
     /\ HasAttr(last.out[1].osp, "add_opts")
     /\ HasAttr(last.out[1].osp, "del_opts"))
    => /\ last.out[1].bp[1].add_opts
              = Split(last.out[1].osp[1].add_opts)
                    \o last.args.boot_params[1].add_opts
       /\ last.out[1].bp[1].del_opts
              = Split(last.out[1].osp[1].del_opts)
                    \o last.args.boot_params[1].del_opts

\* C30: for an entry built from an entry_data mapping or a file with a
\* literal options string, with a profile attached and no BootParams
\* given, the options property returns the words of the literal string,
\* in the same order and number.
LiteralOptionsKept ==
    /\ (/\ last.op = "from_data"
        /\ last.res = "ok"
        /\ last.args.boot_params = None
        /\ last.out[1].osp # None
        /\ "options" \in DOMAIN last.args.entry_data)
       => Split(Options(last.out[1])[1]) = Split(last.args.entry_data["options"])
    /\ (/\ last.op = "from_file"
        /\ last.res = "ok"
        /\ last.out[1].osp # None)
       => \A i \in DOMAIN last.args.file.lines :
              last.args.file.lines[i][1] = "options"
              => Split(Options(last.out[1])[1]) = Split(last.args.file.lines[i][2])

\* C22: loading a file with comment or blank lines before its keys
\* succeeds, and each comment block other than the "#OsIdentifier" line
\* is kept for its key and written back verbatim before that key.
CommentsSurvive ==
    LET Plain(line) == ~HasOsIdentifier(line)
    IN  /\ (/\ last.op = "from_file"
            /\ DOMAIN last.args.file.comments # {})
           => /\ last.res = "ok"
              /\ \A k \in DOMAIN last.args.file.comments :
                     LET kept == SelectSeq(last.args.file.comments[k], Plain)
                     IN  kept # <<>>
                         => /\ k \in DOMAIN last.out[1].comments[1]
                            /\ last.out[1].comments[1][k] = kept
        /\ (/\ pc = "idle"
            /\ last.op = "write_entry"
            /\ last.res = "ok"
            /\ be.comments # None)
           => \A k \in DOMAIN be.comments[1] :
                  Truthy(GetAttr(be, k))
                  => /\ k \in DOMAIN fs[EntryPath(be)].comments
                     /\ fs[EntryPath(be)].comments[k] = be.comments[1][k]

\* C23: after write_entry and a fresh load_entries, the index holds an
\* entry with the title, the boot_id and the version of the entry that
\* was written, whatever its BootParams' add_opts and del_opts.
WrittenEntryIsLoaded ==
    (/\ pc = "idle"
     /\ last.op = "load_entries"
     /\ nfaults = 0
     /\ be.osp # None
     /\ be.bp # None
     /\ ~be.unwritten
     /\ EntryPath(be) \in DOMAIN fs)
    => \E i \in DOMAIN entries :
           /\ Title(entries[i]) = Title(be)
           /\ BootId(entries[i]) = BootId(be)
           /\ Version(entries[i]) = Version(be)

====
